---- MODULE Spec2Model ----
(***************************************************************************)
(* Model of scripts/odas_visualization_node.py (OdasVisualizationNode).    *)
(*                                                                         *)
(* The constructor runs line by line in the main thread; rospy delivers    *)
(* inbound messages to _sst_cb / _ssl_cb from its own receive threads as   *)
(* soon as the matching rospy.Subscriber has been created, so a callback   *)
(* may run between any two constructor steps that follow the subscription. *)
(* In Spec a callback is run to completion as one step; in SpecConc        *)
(* _sst_cb runs in one receive thread per publisher connection and is      *)
(* split at its writes to the stored pose.                                 *)
(*                                                                         *)
(* Numbers.  Direction vectors are taken on the coordinate axes, so every  *)
(* angle is a multiple of pi/2, counted in quarter turns.  A real value    *)
(* (a + b*sqrt(2))/2 is the pair <<a, b>>; that is exact for every sine,   *)
(* cosine and product the conversion forms when roll = 0.                  *)
(***************************************************************************)
EXTENDS Integers, Sequences, FiniteSets, TLC

\* ---------------------------------------------------------------- bounds
MaxEvents == 2      \* callbacks handled in one run
MaxLen    == 2      \* longest sources list of an inbound message
MaxClock  == 2      \* largest value rospy.Time.now() takes

\* ---------------------------------------------------------------- inputs
Types   == {"socket", "file"}
Formats == {"json", "text"}

Section == [interface : [type : Types], format : Formats]

Configurations == [ssl : [potential : Section], sst : [tracked : Section]]

Frames == {"odas", "map"}

\* header.stamp of an inbound message (capture time), disjoint from the clock
EventStamps == {-1}

SslSources == {[x |-> 1, y |-> 0, z |-> 0, E |-> 5],
               [x |-> 0, y |-> 1, z |-> 0, E |-> 3]}

SstSources == {[x |-> 1, y |-> 0, z |-> 0],
               [x |-> 0, y |-> 0, z |-> 1]}

SeqsUpTo(S, n) == UNION {[1..k -> S] : k \in 0..n}

OdasSslArrayStamped ==
    [header : [frame_id : Frames, stamp : EventStamps],
     sources : SeqsUpTo(SslSources, MaxLen)]

OdasSstArrayStamped ==
    [header : [frame_id : Frames, stamp : EventStamps],
     sources : SeqsUpTo(SstSources, MaxLen)]

\* ------------------------------------------------------- exact arithmetic
Zero == <<0, 0>>
One  == <<2, 0>>
Half == <<0, 1>>     \* sqrt(2)/2 = cos(pi/4) = sin(pi/4)

Neg(p)    == <<-p[1], -p[2]>>
Add(p, q) == <<p[1] + q[1], p[2] + q[2]>>
Sub(p, q) == Add(p, Neg(q))
Mul(p, q) == <<(p[1] * q[1] + 2 * p[2] * q[2]) \div 2,
               (p[1] * q[2] + p[2] * q[1]) \div 2>>

\* cos and sin of half of an angle given in quarter turns (-2..2)
CosHalf(a) == IF a = 0 THEN One ELSE IF a \in {1, -1} THEN Half ELSE Zero
SinHalf(a) == CASE a = 0  -> Zero
                [] a = 1  -> Half
                [] a = -1 -> Neg(Half)
                [] a = 2  -> One
                [] a = -2 -> Neg(One)

\* np.sqrt on perfect squares
sqrt(n) == CHOOSE r \in 0..n : r * r = n

\* np.arctan2(y, x) in quarter turns, for a point on an axis (or the origin)
arctan2(y, x) == CASE y = 0 /\ x >= 0 -> 0
                   [] y = 0 /\ x < 0  -> 2
                   [] y > 0 /\ x = 0  -> 1
                   [] y < 0 /\ x = 0  -> -1

\* tf.transformations.quaternion_from_euler(ai, aj, ak, axes='sxyz'),
\* result in (x, y, z, w) order
quaternion_from_euler(ai, aj, ak) ==
    LET ci == CosHalf(ai)  si == SinHalf(ai)
        cj == CosHalf(aj)  sj == SinHalf(aj)
        ck == CosHalf(ak)  sk == SinHalf(ak)
        cc == Mul(ci, ck)  cs == Mul(ci, sk)
        sc == Mul(si, ck)  ss == Mul(si, sk)
    IN  <<Sub(Mul(cj, sc), Mul(sj, cs)),
          Add(Mul(cj, ss), Mul(sj, cc)),
          Sub(Mul(cj, cs), Mul(sj, sc)),
          Add(Mul(cj, cc), Mul(sj, ss))>>

\* variant: the arguments of arctan2 exchanged
unitVector_yaw_swapped(x, y, z) == arctan2(x, y)

unitVector_yaw(x, y, z)   == arctan2(y, x)
unitVector_pitch(x, y, z) == -arctan2(z, sqrt(x * x + y * y))
unitVector_roll(x, y, z)  == 0

unitVector_to_quaternion(x, y, z) ==
    quaternion_from_euler(unitVector_roll(x, y, z),
                          unitVector_pitch(x, y, z),
                          unitVector_yaw(x, y, z))

\* ------------------------------------------------------ configuration gate
\* "True" / "False" are the returned values, anything else the ValueError text
\* variant: the format is tested before the interface type
verify_ssl_configuration_format_first(c) ==
    IF c.ssl.potential.format # "json" THEN "The ssl format must be json"
    ELSE IF c.ssl.potential.interface.type # "socket" THEN "False"
    ELSE "True"

verify_ssl_configuration(c) ==
    IF c.ssl.potential.interface.type # "socket" THEN "False"
    ELSE IF c.ssl.potential.format # "json" THEN "The ssl format must be json"
    ELSE "True"

\* variant: the format is not tested
verify_sst_configuration_any_format(c) ==
    IF c.sst.tracked.interface.type # "socket" THEN "False"
    ELSE "True"

verify_sst_configuration(c) ==
    IF c.sst.tracked.interface.type # "socket" THEN "False"
    ELSE IF c.sst.tracked.format # "json" THEN "The sst format must be json"
    ELSE "True"

\* ------------------------------------------------------------------- state
VARIABLES
    configuration,          \* self._configuration
    pc,                     \* position of the main thread
    verified,               \* what each _verify_*_configuration call gave
    raised,                 \* the exception that left __init__, or "none"
    sst_input_PoseStamped,  \* self._sst_input_PoseStamped, or NoPose
    sst_sub, sst_pose_pub,  \* the attribute exists
    ssl_sub, ssl_pcl_pub,
    now,                    \* rospy.Time.now()
    sst_pose_out,           \* topic sst_pose: messages published, the latest
    ssl_pcl2_out,           \* topic ssl_pcl2: messages published, the latest
    logerr,                 \* rospy.logerr calls made by the node
    bad_callback,           \* exceptions that left a callback
    handled,                \* callbacks run so far
    last,                   \* the last callback run: message and state before
    sst_conn,               \* per inbound connection of topic sst: the _sst_cb
                            \* invocation running in its receive thread
    sst_done                \* (orientation, frame id, stamp) written by each
                            \* _sst_cb invocation that finished line 109

vars == <<configuration, pc, verified, raised, sst_input_PoseStamped,
          sst_sub, sst_pose_pub, ssl_sub, ssl_pcl_pub, now,
          sst_pose_out, ssl_pcl2_out, logerr, bad_callback, handled, last,
          sst_conn, sst_done>>

NoPose  == [none |-> TRUE]

\* publishers connected to topic sst; rospy gives each connection its own
\* receive thread and runs the subscriber's callback in it
Connections == {1, 2}
Idle == [at |-> "idle"]

\* a topic keeps the number of messages published on it and the latest one
NoMessage == [none |-> TRUE]
NoOutput  == [n |-> 0, latest |-> NoMessage]
publish(out, msg) == [n |-> out.n + 1, latest |-> msg]

\* tf2_geometry_msgs.PoseStamped() with position set to 0
NewPoseStamped ==
    [header |-> [frame_id |-> "", stamp |-> 0],
     pose   |-> [position    |-> <<0, 0, 0>>,
                 orientation |-> <<Zero, Zero, Zero, Zero>>]]

Snapshot(cb, msg) ==
    [cb |-> cb, msg |-> msg, now |-> now,
     pose |-> sst_input_PoseStamped,
     n_sst |-> sst_pose_out.n, n_ssl |-> ssl_pcl2_out.n,
     n_logerr |-> logerr, n_bad |-> bad_callback]

Init ==
    /\ configuration \in Configurations
    /\ pc = "verify_sst"
    /\ verified = [sst |-> "none", ssl |-> "none"]
    /\ raised = "none"
    /\ sst_input_PoseStamped = NoPose
    /\ sst_sub = FALSE /\ sst_pose_pub = FALSE
    /\ ssl_sub = FALSE /\ ssl_pcl_pub = FALSE
    /\ now = 1
    /\ sst_pose_out = NoOutput /\ ssl_pcl2_out = NoOutput
    /\ logerr = 0 /\ bad_callback = 0 /\ handled = 0
    /\ last = [cb |-> "none"]
    /\ sst_conn = [t \in Connections |-> Idle]
    /\ sst_done = {}

\* ------------------------------------------------------------- constructor
outputs  == <<sst_pose_out, ssl_pcl2_out, logerr, bad_callback, handled, last>>
wiring   == <<sst_sub, sst_pose_pub, ssl_sub, ssl_pcl_pub>>
threads  == <<sst_conn, sst_done>>

init_verify_sst ==
    /\ pc = "verify_sst"
    /\ LET r == verify_sst_configuration(configuration) IN
         /\ verified' = [verified EXCEPT !.sst = r]
         /\ IF r = "True" THEN pc' = "sst_pose" /\ raised' = raised
            ELSE IF r = "False" THEN pc' = "verify_ssl" /\ raised' = raised
            ELSE pc' = "failed" /\ raised' = r
    /\ UNCHANGED <<threads, configuration, sst_input_PoseStamped, wiring, now, outputs>>

init_sst_pose ==
    /\ pc = "sst_pose"
    /\ sst_input_PoseStamped' = NewPoseStamped
    /\ pc' = "sst_sub"
    /\ UNCHANGED <<threads, configuration, verified, raised, wiring, now, outputs>>

init_sst_sub ==
    /\ pc = "sst_sub"
    /\ sst_sub' = TRUE
    /\ pc' = "sst_pub"
    /\ UNCHANGED <<threads, configuration, verified, raised, sst_input_PoseStamped,
                   sst_pose_pub, ssl_sub, ssl_pcl_pub, now, outputs>>

init_sst_pub ==
    /\ pc = "sst_pub"
    /\ sst_pose_pub' = TRUE
    /\ pc' = "verify_ssl"
    /\ UNCHANGED <<threads, configuration, verified, raised, sst_input_PoseStamped,
                   sst_sub, ssl_sub, ssl_pcl_pub, now, outputs>>

\* variant: the result of the verification is ignored
init_verify_ssl_always_wires ==
    /\ pc = "verify_ssl"
    /\ LET r == verify_ssl_configuration(configuration) IN
         /\ verified' = [verified EXCEPT !.ssl = r]
         /\ IF r \in {"True", "False"} THEN pc' = "ssl_sub" /\ raised' = raised
            ELSE pc' = "failed" /\ raised' = r
    /\ UNCHANGED <<threads, configuration, sst_input_PoseStamped, wiring, now, outputs>>

init_verify_ssl ==
    /\ pc = "verify_ssl"
    /\ LET r == verify_ssl_configuration(configuration) IN
         /\ verified' = [verified EXCEPT !.ssl = r]
         /\ IF r = "True" THEN pc' = "ssl_sub" /\ raised' = raised
            ELSE IF r = "False" THEN pc' = "spin" /\ raised' = raised
            ELSE pc' = "failed" /\ raised' = r
    /\ UNCHANGED <<threads, configuration, sst_input_PoseStamped, wiring, now, outputs>>

init_ssl_sub ==
    /\ pc = "ssl_sub"
    /\ ssl_sub' = TRUE
    /\ pc' = "ssl_pub"
    /\ UNCHANGED <<threads, configuration, verified, raised, sst_input_PoseStamped,
                   sst_sub, sst_pose_pub, ssl_pcl_pub, now, outputs>>

init_ssl_pub ==
    /\ pc = "ssl_pub"
    /\ ssl_pcl_pub' = TRUE
    /\ pc' = "spin"
    /\ UNCHANGED <<threads, configuration, verified, raised, sst_input_PoseStamped,
                   sst_sub, sst_pose_pub, ssl_sub, now, outputs>>

\* main(): the ValueError is not a ROSInterruptException, the process ends
main_abort ==
    /\ pc = "failed"
    /\ pc' = "exited"
    /\ UNCHANGED <<threads, configuration, verified, raised, sst_input_PoseStamped,
                   wiring, now, outputs>>

\* the clock advances
Tick ==
    /\ now < MaxClock
    /\ pc # "exited"
    /\ now' = now + 1
    /\ UNCHANGED <<threads, configuration, pc, verified, raised, sst_input_PoseStamped,
                   wiring, outputs>>

\* --------------------------------------------------------------- callbacks
cloud_points(ssl) ==
    [i \in 1..Len(ssl.sources) |->
        <<ssl.sources[i].x, ssl.sources[i].y, ssl.sources[i].z, ssl.sources[i].E>>]

PointFields == <<"x", "y", "z", "intensity">>

\* pcl2.create_cloud(header, fields, points)
create_cloud(header, fields, points) ==
    [header |-> header, fields |-> fields, points |-> points]

\* variant: an empty cloud is published
ssl_cb_return_publishes_empty(ssl) ==
    LET header == [frame_id |-> ssl.header.frame_id, stamp |-> now]
        pcl    == create_cloud(header, PointFields, cloud_points(ssl))
    IN  /\ ssl_pcl2_out' = publish(ssl_pcl2_out, pcl)
        /\ UNCHANGED bad_callback

\* line 65: nothing to publish
ssl_cb_return(ssl) ==
    UNCHANGED <<ssl_pcl2_out, bad_callback>>

\* lines 67-84; without the publisher attribute line 84 raises AttributeError,
\* which rospy catches around the callback
ssl_cb_publish(ssl) ==
    LET header == [frame_id |-> ssl.header.frame_id, stamp |-> now]
        pcl    == create_cloud(header, PointFields, cloud_points(ssl))
    IN  IF ssl_pcl_pub
        THEN /\ ssl_pcl2_out' = publish(ssl_pcl2_out, pcl)
             /\ UNCHANGED bad_callback
        ELSE /\ bad_callback' = bad_callback + 1
             /\ UNCHANGED ssl_pcl2_out

\* variant: the header of the message is also written to the stored pose
ssl_cb_writes_pose_header(ssl) ==
    /\ ssl_sub
    /\ pc # "exited"
    /\ handled < MaxEvents
    /\ handled' = handled + 1
    /\ last' = Snapshot("ssl", ssl)
    /\ IF Len(ssl.sources) = 0
       THEN ssl_cb_return(ssl)
       ELSE ssl_cb_publish(ssl)
    /\ sst_input_PoseStamped' =
          IF sst_input_PoseStamped = NoPose THEN NoPose
          ELSE [sst_input_PoseStamped EXCEPT
                   !.header = [frame_id |-> ssl.header.frame_id, stamp |-> now]]
    /\ UNCHANGED <<threads, configuration, pc, verified, raised,
                   wiring, now, sst_pose_out, logerr>>

ssl_cb(ssl) ==
    /\ ssl_sub
    /\ pc # "exited"
    /\ handled < MaxEvents
    /\ handled' = handled + 1
    /\ last' = Snapshot("ssl", ssl)
    /\ IF Len(ssl.sources) = 0
       THEN ssl_cb_return(ssl)
       ELSE ssl_cb_publish(ssl)
    /\ UNCHANGED <<threads, configuration, pc, verified, raised, sst_input_PoseStamped,
                   wiring, now, sst_pose_out, logerr>>

\* variant: the stored pose is re-stamped and published again
sst_cb_return_republishes(sst) ==
    /\ sst_input_PoseStamped' =
           [sst_input_PoseStamped EXCEPT
               !.header = [frame_id |-> sst.header.frame_id, stamp |-> now]]
    /\ sst_pose_out' = publish(sst_pose_out, sst_input_PoseStamped')
    /\ UNCHANGED <<logerr, bad_callback>>

\* line 89
sst_cb_return(sst) ==
    UNCHANGED <<sst_input_PoseStamped, sst_pose_out, logerr, bad_callback>>

\* variant: the message is dropped without a log entry
sst_cb_invalid_silent(sst) ==
    UNCHANGED <<sst_input_PoseStamped, sst_pose_out, logerr, bad_callback>>

\* variant: the first track of an invalid message is used after the log entry
sst_cb_invalid_uses_first(sst) ==
    /\ logerr' = logerr + 1
    /\ sst_input_PoseStamped' =
          [sst_input_PoseStamped EXCEPT
              !.header = [frame_id |-> sst.header.frame_id, stamp |-> now]]
    /\ UNCHANGED <<sst_pose_out, bad_callback>>

\* lines 91-93
sst_cb_invalid(sst) ==
    /\ logerr' = logerr + 1
    /\ UNCHANGED <<sst_input_PoseStamped, sst_pose_out, bad_callback>>

\* variant: the direction is also written to the position
updated_pose_sets_position(p, sst) ==
    LET q == unitVector_to_quaternion(sst.sources[1].x, sst.sources[1].y,
                                      sst.sources[1].z)
    IN  [header |-> [frame_id |-> sst.header.frame_id, stamp |-> now],
         pose   |-> [position    |-> <<sst.sources[1].x, sst.sources[1].y,
                                       sst.sources[1].z>>,
                     orientation |-> <<q[1], q[2], q[3], q[4]>>]]

\* lines 104-109: the stored pose after the update
updated_pose(p, sst) ==
    LET q == unitVector_to_quaternion(sst.sources[1].x, sst.sources[1].y,
                                      sst.sources[1].z)
    IN  [header |-> [frame_id |-> sst.header.frame_id, stamp |-> now],
         pose   |-> [position    |-> p.pose.position,
                     orientation |-> <<q[1], q[2], q[3], q[4]>>]]

\* lines 95-111; without the publisher attribute line 111 raises
\* AttributeError after the stored pose has been written
sst_cb_update(sst) ==
    /\ sst_input_PoseStamped' = updated_pose(sst_input_PoseStamped, sst)
    /\ UNCHANGED logerr
    /\ IF sst_pose_pub
       THEN /\ sst_pose_out' = publish(sst_pose_out, sst_input_PoseStamped')
            /\ UNCHANGED bad_callback
       ELSE /\ bad_callback' = bad_callback + 1
            /\ UNCHANGED sst_pose_out

sst_cb(sst) ==
    /\ sst_sub
    /\ pc # "exited"
    /\ handled < MaxEvents
    /\ handled' = handled + 1
    /\ last' = Snapshot("sst", sst)
    /\ IF Len(sst.sources) = 0 THEN sst_cb_return(sst)
       ELSE IF Len(sst.sources) > 1 THEN sst_cb_invalid(sst)
       ELSE sst_cb_update(sst)
    /\ UNCHANGED <<threads, configuration, pc, verified, raised, wiring, now, ssl_pcl2_out>>

on_ssl == \E ssl \in OdasSslArrayStamped : ssl_cb(ssl)
on_sst == \E sst \in OdasSstArrayStamped : sst_cb(sst)

Next ==
    \/ init_verify_sst
    \/ init_sst_pose
    \/ init_sst_sub
    \/ init_sst_pub
    \/ init_verify_ssl
    \/ init_ssl_sub
    \/ init_ssl_pub
    \/ main_abort
    \/ Tick
    \/ on_ssl
    \/ on_sst

Spec == Init /\ [][Next]_vars

TypeOK ==
    /\ configuration \in Configurations
    /\ pc \in {"verify_sst", "sst_pose", "sst_sub", "sst_pub", "verify_ssl",
               "ssl_sub", "ssl_pub", "spin", "failed", "exited"}
    /\ now \in 1..MaxClock
    /\ handled \in 0..MaxEvents
    /\ sst_pose_out.n + ssl_pcl2_out.n <= handled

\* ------------------------------------------- _sst_cb in the receive threads
\* rospy runs _sst_cb in the receive thread of the connection a message came
\* in on and takes no lock around it, so with two publishers on topic sst
\* two invocations run side by side and interleave between statements.
\* Here _sst_cb is split at its writes to self._sst_input_PoseStamped.

\* the sending thread's message and the stamp it read, in the shape of Snapshot
SentBy(th) ==
    [cb |-> "sst", msg |-> th.msg, now |-> th.stamp,
     pose |-> sst_input_PoseStamped,
     n_sst |-> sst_pose_out.n, n_ssl |-> ssl_pcl2_out.n,
     n_logerr |-> logerr, n_bad |-> bad_callback]

\* lines 86-101
sst_cb_enter(t, sst) ==
    /\ sst_sub
    /\ pc # "exited"
    /\ handled < MaxEvents
    /\ sst_conn[t] = Idle
    /\ handled' = handled + 1
    /\ last' = Snapshot("sst", sst)
    /\ IF Len(sst.sources) = 0
       THEN UNCHANGED <<sst_conn, logerr>>
       ELSE IF Len(sst.sources) > 1
       THEN /\ logerr' = logerr + 1
            /\ UNCHANGED sst_conn
       ELSE /\ sst_conn' = [sst_conn EXCEPT ![t] =
                  [at |-> "orientation", msg |-> sst, stamp |-> 0,
                   q |-> unitVector_to_quaternion(sst.sources[1].x,
                            sst.sources[1].y, sst.sources[1].z)]]
            /\ UNCHANGED logerr
    /\ UNCHANGED <<configuration, pc, verified, raised, sst_input_PoseStamped,
                   wiring, now, sst_pose_out, ssl_pcl2_out, bad_callback,
                   sst_done>>

\* lines 104-107
sst_cb_orientation(t) ==
    /\ sst_conn[t].at = "orientation"
    /\ pc # "exited"
    /\ sst_input_PoseStamped' =
          [sst_input_PoseStamped EXCEPT !.pose.orientation = sst_conn[t].q]
    /\ sst_conn' = [sst_conn EXCEPT ![t].at = "frame_id"]
    /\ UNCHANGED <<configuration, pc, verified, raised, wiring, now, outputs,
                   sst_done>>

\* line 108
sst_cb_frame_id(t) ==
    /\ sst_conn[t].at = "frame_id"
    /\ pc # "exited"
    /\ sst_input_PoseStamped' =
          [sst_input_PoseStamped EXCEPT
              !.header.frame_id = sst_conn[t].msg.header.frame_id]
    /\ sst_conn' = [sst_conn EXCEPT ![t].at = "stamp"]
    /\ UNCHANGED <<configuration, pc, verified, raised, wiring, now, outputs,
                   sst_done>>

\* line 109
sst_cb_stamp(t) ==
    /\ sst_conn[t].at = "stamp"
    /\ pc # "exited"
    /\ sst_input_PoseStamped' =
          [sst_input_PoseStamped EXCEPT !.header.stamp = now]
    /\ sst_conn' = [sst_conn EXCEPT ![t].at = "publish", ![t].stamp = now]
    /\ sst_done' = sst_done \cup
          {<<sst_conn[t].q, sst_conn[t].msg.header.frame_id, now>>}
    /\ UNCHANGED <<configuration, pc, verified, raised, wiring, now, outputs>>

\* line 111
sst_cb_publish(t) ==
    /\ sst_conn[t].at = "publish"
    /\ pc # "exited"
    /\ last' = SentBy(sst_conn[t])
    /\ IF sst_pose_pub
       THEN /\ sst_pose_out' = publish(sst_pose_out, sst_input_PoseStamped)
            /\ UNCHANGED bad_callback
       ELSE /\ bad_callback' = bad_callback + 1
            /\ UNCHANGED sst_pose_out
    /\ sst_conn' = [sst_conn EXCEPT ![t] = Idle]
    /\ UNCHANGED <<configuration, pc, verified, raised, sst_input_PoseStamped,
                   wiring, now, ssl_pcl2_out, logerr, handled, sst_done>>

conn_enter       == \E t \in Connections, sst \in OdasSstArrayStamped :
                        sst_cb_enter(t, sst)
conn_orientation == \E t \in Connections : sst_cb_orientation(t)
conn_frame_id    == \E t \in Connections : sst_cb_frame_id(t)
conn_stamp       == \E t \in Connections : sst_cb_stamp(t)
conn_publish     == \E t \in Connections : sst_cb_publish(t)

NextConc ==
    \/ init_verify_sst
    \/ init_sst_pose
    \/ init_sst_sub
    \/ init_sst_pub
    \/ init_verify_ssl
    \/ init_ssl_sub
    \/ init_ssl_pub
    \/ main_abort
    \/ Tick
    \/ on_ssl
    \/ conn_enter
    \/ conn_orientation
    \/ conn_frame_id
    \/ conn_stamp
    \/ conn_publish

SpecConc == Init /\ [][NextConc]_vars

\* ------------------------------------------------------------- properties
SslMessage == "The ssl format must be json"
SstMessage == "The sst format must be json"

SslSection == configuration.ssl.potential
SstSection == configuration.sst.tracked

NotSocket(sec)  == sec.interface.type # "socket"
BadFormat(sec)  == sec.interface.type = "socket" /\ sec.format # "json"

\* __init__ has returned or raised
StartupOver == pc \in {"spin", "failed", "exited"}

\* C1: a stream whose interface type is not "socket" is disabled: its
\* verification returns False whenever it runs, the stream is never wired,
\* and no error names it, whatever its format and the other stream's section.
C1_NotSocketDisabled ==
    /\ NotSocket(SslSection) =>
          /\ verified.ssl \in {"none", "False"}
          /\ (pc = "spin" => verified.ssl = "False")
          /\ ~ssl_sub /\ ~ssl_pcl_pub
          /\ raised # SslMessage
    /\ NotSocket(SstSection) =>
          /\ verified.sst \in {"none", "False"}
          /\ (pc # "verify_sst" => verified.sst = "False")
          /\ ~sst_sub /\ ~sst_pose_pub
          /\ raised # SstMessage

C1_Witness ==
    /\ pc = "spin"
    /\ NotSocket(SslSection) /\ SslSection.format # "json"
    /\ verified.ssl = "False"
    /\ verified.sst = "True"

\* C2 as stated: a stream that is socket with a non-json format makes startup
\* fail with an error naming that stream, also when the other stream is
\* socket with a non-json format.
C2_Original ==
    /\ BadFormat(SslSection) => pc # "spin" /\ (StartupOver => raised = SslMessage)
    /\ BadFormat(SstSection) => pc # "spin" /\ (StartupOver => raised = SstMessage)

\* C2 amended: startup fails; the error names tracking when tracking is
\* socket/non-json, and names localization when localization is
\* socket/non-json and tracking is not.
C2_FirstFailureNamed ==
    /\ BadFormat(SstSection) =>
          pc # "spin" /\ (StartupOver => raised = SstMessage)
    /\ BadFormat(SslSection) /\ ~BadFormat(SstSection) =>
          pc # "spin" /\ (StartupOver => raised = SslMessage)

C2_Witness ==
    /\ pc = "failed"
    /\ BadFormat(SslSection) /\ BadFormat(SstSection)
    /\ raised = SstMessage
    /\ verified.ssl = "none"

\* C3: a stream is wired to its subscriber and publisher exactly when its
\* verification returned True; wiring is never undone and does not change
\* once __init__ is over; a stream that is not enabled never publishes.
C3_WiredIffEnabled ==
    /\ [](/\ (sst_sub \/ sst_pose_pub) => verified.sst = "True"
          /\ (ssl_sub \/ ssl_pcl_pub) => verified.ssl = "True"
          /\ (verified.sst = "True" /\ pc \notin {"sst_pose", "sst_sub", "sst_pub"})
                => sst_sub /\ sst_pose_pub
          /\ (verified.ssl = "True" /\ pc \notin {"ssl_sub", "ssl_pub"})
                => ssl_sub /\ ssl_pcl_pub
          /\ verified.sst # "True" => sst_pose_out = NoOutput
          /\ verified.ssl # "True" => ssl_pcl2_out = NoOutput)
    /\ [][/\ (sst_sub => sst_sub') /\ (sst_pose_pub => sst_pose_pub')
          /\ (ssl_sub => ssl_sub') /\ (ssl_pcl_pub => ssl_pcl_pub')
          /\ StartupOver => wiring' = wiring]_vars

C3_Witness ==
    /\ pc = "spin"
    /\ sst_sub /\ sst_pose_pub /\ ~ssl_sub /\ ~ssl_pcl_pub
    /\ verified = [sst |-> "True", ssl |-> "False"]
    /\ sst_pose_out.n = MaxEvents

\* the last callback and its message
LastSsl(n) == last.cb = "ssl" /\ Len(last.msg.sources) = n
LastSst(n) == last.cb = "sst" /\ Len(last.msg.sources) = n

\* C4 as stated: a localization message with N >= 1 sources makes _ssl_cb
\* publish exactly one cloud with N points, the i-th being (x, y, z, E) of
\* the i-th source.
C4_Original ==
    \A n \in 1..MaxLen + 1 : LastSsl(n) =>
        /\ ssl_pcl2_out.n = last.n_ssl + 1
        /\ LET pcl == ssl_pcl2_out.latest IN
             /\ Len(pcl.points) = n
             /\ \A i \in 1..n :
                   pcl.points[i] = <<last.msg.sources[i].x, last.msg.sources[i].y,
                                     last.msg.sources[i].z, last.msg.sources[i].E>>

\* C5: a localization message with no sources publishes nothing and raises
\* nothing.
C5_EmptySslSilent ==
    LastSsl(0) =>
        /\ ssl_pcl2_out.n = last.n_ssl
        /\ sst_pose_out.n = last.n_sst
        /\ bad_callback = last.n_bad
        /\ logerr = last.n_logerr

C5_Witness ==
    /\ LastSsl(0)
    /\ ssl_pcl_pub
    /\ handled = MaxEvents
    /\ ssl_pcl2_out.n = MaxEvents - 1

\* C6: a tracking message with no sources publishes nothing and leaves the
\* stored pose as it was, field by field.
C6_EmptySstNoEffect ==
    LastSst(0) =>
        /\ sst_pose_out.n = last.n_sst
        /\ sst_input_PoseStamped.pose.position = last.pose.pose.position
        /\ sst_input_PoseStamped.pose.orientation = last.pose.pose.orientation
        /\ sst_input_PoseStamped.header.frame_id = last.pose.header.frame_id
        /\ sst_input_PoseStamped.header.stamp = last.pose.header.stamp

C6_Witness ==
    /\ LastSst(0)
    /\ sst_pose_pub
    /\ sst_pose_out.n = MaxEvents - 1
    /\ last.pose.header.frame_id # last.msg.header.frame_id
    /\ last.pose.header.stamp # now

\* C7: the stored pose's position is (0,0,0) in every state, every pose has
\* position (0,0,0) when it is published, and a tracking message with one source leaves
\* the position of the stored pose as it was.
C7_PositionFixed ==
    /\ sst_input_PoseStamped # NoPose =>
          sst_input_PoseStamped.pose.position = <<0, 0, 0>>
    /\ sst_pose_out.latest # NoMessage =>
          sst_pose_out.latest.pose.position = <<0, 0, 0>>
    /\ LastSst(1) =>
          sst_input_PoseStamped.pose.position = last.pose.pose.position

C7_Witness ==
    /\ LastSst(1)
    /\ sst_pose_out.n = last.n_sst + 1
    /\ sst_pose_out.n = MaxEvents
    /\ sst_input_PoseStamped.pose.orientation # last.pose.pose.orientation
    /\ sst_input_PoseStamped.header # last.pose.header

\* C8: a tracking message with two or more sources publishes nothing, makes
\* one rospy.logerr call and raises nothing.
C8_TooManyTracksLogged ==
    \A n \in 2..MaxLen + 1 : LastSst(n) =>
        /\ sst_pose_out.n = last.n_sst
        /\ logerr = last.n_logerr + 1
        /\ bad_callback = last.n_bad

C8_Witness ==
    /\ LastSst(2)
    /\ sst_pose_pub
    /\ logerr = 1
    /\ sst_pose_out.n = MaxEvents - 1

\* C9 as stated: a tracking message with one source makes _sst_cb publish
\* exactly one pose, equal to the stored pose after the update: orientation
\* from the source's direction, frame id of the message, stamp the clock
\* value read in the callback.
C9_Original ==
    LastSst(1) =>
        /\ sst_pose_out.n = last.n_sst + 1
        /\ LET rec == sst_pose_out.latest
               src == last.msg.sources[1]
           IN  /\ rec = sst_input_PoseStamped
               /\ rec.pose.orientation = unitVector_to_quaternion(src.x, src.y, src.z)
               /\ rec.header.frame_id = last.msg.header.frame_id
               /\ rec.header.stamp = last.now

\* C10: the orientation written for a direction (x, y, z) is the quaternion
\* of roll 0, pitch -atan2(z, sqrt(x*x + y*y)), yaw atan2(y, x); for (1,0,0)
\* yaw, pitch and roll are 0 and the quaternion is (0,0,0,1).
C10_ToQuaternion ==
    LastSst(1) =>
        LET src == last.msg.sources[1]
            q   == sst_input_PoseStamped.pose.orientation
        IN  /\ q = quaternion_from_euler(
                      0,
                      -arctan2(src.z, sqrt(src.x * src.x + src.y * src.y)),
                      arctan2(src.y, src.x))
            /\ (src.x = 1 /\ src.y = 0 /\ src.z = 0) =>
                  /\ unitVector_yaw(src.x, src.y, src.z) = 0
                  /\ unitVector_pitch(src.x, src.y, src.z) = 0
                  /\ unitVector_roll(src.x, src.y, src.z) = 0
                  /\ q = <<Zero, Zero, Zero, One>>

C10_Witness ==
    /\ LastSst(1)
    /\ last.msg.sources[1] = [x |-> 1, y |-> 0, z |-> 0]
    /\ last.pose.pose.orientation # <<Zero, Zero, Zero, One>>
    /\ sst_input_PoseStamped.pose.orientation = <<Zero, Zero, Zero, One>>

\* a step that runs _ssl_cb / _sst_cb
SslStep == handled' # handled /\ last'.cb = "ssl"
SstStep == handled' # handled /\ last'.cb = "sst"

\* what _sst_cb publishes for a one-source message, from the message, the
\* clock and the fixed position alone
expected_pose(msg, t) ==
    [header |-> [frame_id |-> msg.header.frame_id, stamp |-> t],
     pose   |-> [position    |-> <<0, 0, 0>>,
                 orientation |-> unitVector_to_quaternion(
                     msg.sources[1].x, msg.sources[1].y, msg.sources[1].z)]]

\* what _ssl_cb publishes, from the message and the clock alone
expected_cloud(msg, t) ==
    [header |-> [frame_id |-> msg.header.frame_id, stamp |-> t],
     fields |-> PointFields,
     points |-> [i \in 1..Len(msg.sources) |->
                   <<msg.sources[i].x, msg.sources[i].y,
                     msg.sources[i].z, msg.sources[i].E>>]]

\* C13: _ssl_cb leaves the stored pose and the sst_pose topic as they were,
\* _sst_cb leaves the ssl_pcl2 topic as it was, and what a callback publishes
\* is determined by its own message and the clock, whatever the other
\* stream's callbacks did before.
C13_AdaptersIndependent ==
    /\ [][/\ SslStep => /\ sst_input_PoseStamped' = sst_input_PoseStamped
                        /\ sst_pose_out' = sst_pose_out
          /\ SstStep => ssl_pcl2_out' = ssl_pcl2_out]_vars
    /\ [](/\ (last.cb = "ssl" /\ ssl_pcl2_out.n > last.n_ssl) =>
                ssl_pcl2_out.latest = expected_cloud(last.msg, last.now)
          /\ (last.cb = "sst" /\ sst_pose_out.n > last.n_sst) =>
                sst_pose_out.latest = expected_pose(last.msg, last.now))

C13_Witness ==
    /\ last.cb = "ssl"
    /\ ssl_pcl2_out.n = last.n_ssl + 1
    /\ sst_pose_out.n = 1
    /\ sst_input_PoseStamped = sst_pose_out.latest
    /\ sst_input_PoseStamped.header.frame_id # last.msg.header.frame_id
    /\ sst_input_PoseStamped.header.stamp # last.now

\* C14: a tracking message with two or more sources leaves the stored pose
\* and everything a later callback reads as it was (only the log grows), and
\* a one-source message handled after it updates the stored pose and, unless
\* the callback fails, publishes it, as without the invalid message.
C14_AnomalyNoEffect ==
    /\ [][(SstStep /\ Len(last'.msg.sources) >= 2) =>
             UNCHANGED <<threads, configuration, pc, verified, raised,
                         sst_input_PoseStamped, wiring, now,
                         sst_pose_out, ssl_pcl2_out, bad_callback>>]_vars
    /\ [](/\ \A n \in 2..MaxLen + 1 :
                LastSst(n) => sst_input_PoseStamped = last.pose
          /\ (LastSst(1) /\ last.n_logerr > 0) =>
                /\ sst_input_PoseStamped = expected_pose(last.msg, last.now)
                /\ bad_callback = last.n_bad =>
                      sst_pose_out = publish([n |-> last.n_sst, latest |-> NoMessage],
                                             expected_pose(last.msg, last.now)))

C14_Witness ==
    /\ LastSst(1)
    /\ last.n_logerr = 1
    /\ last.n_sst = 0
    /\ sst_pose_out.n = 1
    /\ last.pose = NewPoseStamped

\* C15 as stated: when __init__ raises, no subscriber or publisher of either
\* stream exists, no callback has run and nothing has been published.
C15_Original ==
    raised # "none" =>
        /\ ~sst_sub /\ ~sst_pose_pub /\ ~ssl_sub /\ ~ssl_pcl_pub
        /\ handled = 0
        /\ sst_pose_out = NoOutput /\ ssl_pcl2_out = NoOutput

\* C16 as stated: a callback that reaches its publish call finds the
\* publisher attribute, so no callback of a message with sources to publish
\* ends in an exception.
C16_Original ==
    /\ LastSst(1) => bad_callback = last.n_bad
    /\ \A n \in 1..MaxLen + 1 : LastSsl(n) => bad_callback = last.n_bad

\* C11 as stated: invocations of _sst_cb do not interleave their writes to
\* the stored pose, so every published pose carries the orientation, frame id
\* and stamp written by one and the same invocation.
C11_Original ==
    sst_pose_out.latest # NoMessage =>
        <<sst_pose_out.latest.pose.orientation,
          sst_pose_out.latest.header.frame_id,
          sst_pose_out.latest.header.stamp>> \in sst_done

\* C12 as stated: every published record carries the frame id of the message
\* whose callback published it and as stamp the clock value that callback
\* read; the stamp of the inbound message is never copied.
C12_Original ==
    /\ (last.cb = "ssl" /\ ssl_pcl2_out.n > last.n_ssl) =>
          /\ ssl_pcl2_out.latest.header.frame_id = last.msg.header.frame_id
          /\ ssl_pcl2_out.latest.header.stamp = last.now
          /\ ssl_pcl2_out.latest.header.stamp # last.msg.header.stamp
    /\ (last.cb = "sst" /\ sst_pose_out.n > last.n_sst) =>
          /\ sst_pose_out.latest.header.frame_id = last.msg.header.frame_id
          /\ sst_pose_out.latest.header.stamp = last.now
          /\ sst_pose_out.latest.header.stamp # last.msg.header.stamp
====
